---- MODULE Spec2Model ----
(***************************************************************************)
(* A model of todoServer: the HTTP front-end over a to-do list kept in one *)
(* file.  Every request to the /todo routes runs todoRouter: it takes the  *)
(* process-wide mutex, loads the list from the file, dispatches on path    *)
(* and method to one handler, which may change the list, save it and       *)
(* reply, and releases the mutex when the closure returns.                 *)
(*                                                                         *)
(* URL paths are sequences of one-character strings, so that the mux's     *)
(* prefix match, StripPrefix and strconv.Atoi are computed, not assumed.   *)
(* An item is its task text and its done flag; the time stamps the list    *)
(* package keeps with an item are not modelled.                            *)
(***************************************************************************)
EXTENDS Integers, Sequences, FiniteSets, TLC

\* ------------------------------------------------------------------ bounds
\* Number of connection goroutines serving requests at the same time.
NProcs == 2
\* Longest stored list the concurrent specifications let requests build.
MaxConcLen == 2
\* Longest stored list the sequential specification lets requests build.
MaxLen == 3
\* Longest list stored when the one-request goroutines of SpecAdd start.
MaxInitLen == 1

Procs == 1..NProcs

\* ------------------------------------------------------- program constants
StatusOK == 200
StatusCreated == 201
StatusNoContent == 204
StatusBadRequest == 400
StatusNotFound == 404
StatusMethodNotAllowed == 405
StatusInternalServerError == 500

\* http.StatusText for the statuses the server replies with.
StatusText(status) ==
    CASE status = 400 -> "Bad Request"
      [] status = 404 -> "Not Found"
      [] status = 405 -> "Method Not Allowed"
      [] status = 500 -> "Internal Server Error"
      [] OTHER -> ""

\* rootHandler's fixed text.
RootContent == "There's an API here"

\* ---------------------------------------------------------------- strings
DigitChars == <<"0", "1", "2", "3", "4", "5", "6", "7", "8", "9">>

IsDigit(c) == \E d \in 1..10 : DigitChars[d] = c

DigitVal(c) == (CHOOSE d \in 1..10 : DigitChars[d] = c) - 1

\* strings.HasPrefix on character sequences.
HasPrefix(s, prefix) ==
    /\ Len(s) >= Len(prefix)
    /\ SubSeq(s, 1, Len(prefix)) = prefix

RECURSIVE DigitsValue(_)
\* The base-10 value of a sequence of digit characters.
DigitsValue(s) ==
    IF s = <<>> THEN 0
    ELSE 10 * DigitsValue(SubSeq(s, 1, Len(s) - 1)) + DigitVal(s[Len(s)])

\* strconv.Atoi: an optional sign, then one or more decimal digits; anything
\* else is a syntax error.  (Inputs here are far below the 64-bit range.)
Atoi(s) ==
    LET signed == s # <<>> /\ s[1] \in {"+", "-"}
        digits == IF signed THEN Tail(s) ELSE s
    IN  IF digits = <<>> \/ \E k \in 1..Len(digits) : ~IsDigit(digits[k])
        THEN [ok |-> FALSE, val |-> 0]
        ELSE [ok |-> TRUE,
              val |-> IF signed /\ s[1] = "-" THEN 0 - DigitsValue(digits)
                      ELSE DigitsValue(digits)]

\* ------------------------------------------------------------------- paths
RootPath == <<"/">>
TodoPrefix == <<"/", "t", "o", "d", "o">>
TodoSlashPrefix == <<"/", "t", "o", "d", "o", "/">>

\* The pattern of newMux that serves a URL path: "/todo" matches that path
\* alone, "/todo/" every path under it, "/" everything else.
MuxPattern(path) ==
    IF path = TodoPrefix THEN "/todo"
    ELSE IF HasPrefix(path, TodoSlashPrefix) THEN "/todo/"
    ELSE "/"

\* http.StripPrefix: the path the wrapped handler sees as r.URL.Path.
StripPrefix(prefix, path) == SubSeq(path, Len(prefix) + 1, Len(path))

\* The router's path with "/todo" stripped under both patterns: "/todo/"
\* leaves "/".
RouterPathOnePrefix(path) == StripPrefix(TodoPrefix, path)

\* r.URL.Path inside todoRouter for a request the mux sent to it.
RouterPath(path) ==
    IF MuxPattern(path) = "/todo" THEN StripPrefix(TodoPrefix, path)
    ELSE StripPrefix(TodoSlashPrefix, path)

\* ------------------------------------------------------------------- items
Tasks == {"a"}

\* Task texts an item can carry: a decoded task, or the empty string of a
\* body without a task field.
TaskTexts == Tasks \cup {""}

Items == [Task : TaskTexts, Done : BOOLEAN]

\* todo.List.Add: append an incomplete item.
ListAdd(l, task) == Append(l, [Task |-> task, Done |-> FALSE])

\* todo.List.Delete: remove item i (1-based); out of range is an error the
\* handler ignores and the list is left alone.
ListDelete(l, i) ==
    IF i < 1 \/ i > Len(l) THEN l
    ELSE SubSeq(l, 1, i - 1) \o SubSeq(l, i + 1, Len(l))

\* todo.List.Complete: mark item i done; out of range leaves the list alone.
ListComplete(l, i) ==
    IF i < 1 \/ i > Len(l) THEN l
    ELSE [l EXCEPT ![i].Done = TRUE]

\* ---------------------------------------------------------------- requests
Methods == {"GET", "POST", "DELETE", "PATCH", "PUT"}

\* Path segments after /todo/: the identifiers 0..MaxLen+1 and text that is
\* signed, not a number, or a number followed by text.
Segments ==
    {<<DigitChars[i + 1]>> : i \in 0..(MaxLen + 1)}
        \cup {<<"-", "1">>, <<"+", "1">>, <<"a">>, <<"1", "a">>}

Paths ==
    {RootPath, <<"/", "x">>, <<"/", "t", "o", "d", "o", "x">>,
     TodoPrefix, TodoSlashPrefix}
        \cup {TodoSlashPrefix \o seg : seg \in Segments}

\* Request bodies by what json.Decoder.Decode makes of them: an object with a
\* string task, an object without a task field, no body at all, text that is
\* not JSON, and an object whose task is not a string.
Bodies ==
    {[kind |-> "task", task |-> t] : t \in Tasks}
        \cup {[kind |-> k, task |-> ""] :
                k \in {"notask", "empty", "malformed", "nonstring"}}

NoBody == [kind |-> "empty", task |-> ""]

\* The requests clients send.  Only a POST is given a body other than the
\* empty one: no other handler reads it.
Requests ==
    {r \in [method : Methods, path : Paths, complete : BOOLEAN, body : Bodies] :
        r.method # "POST" => r.body = NoBody}

NoReq == [method |-> "", path |-> <<>>, complete |-> FALSE, body |-> NoBody]

\* json.NewDecoder(r.Body).Decode(&item) in addHandler.
Decode(body) ==
    CASE body.kind = "task" -> [ok |-> TRUE, Task |-> body.task]
      [] body.kind = "notask" -> [ok |-> TRUE, Task |-> ""]
      [] OTHER -> [ok |-> FALSE, Task |-> ""]

\* ----------------------------------------------------------------- replies
\* What a request's ResponseWriter received and what was logged for it.
TextReply(status, content) ==
    [status |-> status, ctype |-> "text/plain",
     text |-> IF content = "" THEN <<>> ELSE <<content>>,
     results |-> <<>>, log |-> ""]

JSONReply(status, results) ==
    [status |-> status, ctype |-> "application/json",
     text |-> <<>>, results |-> results, log |-> ""]

\* replyError sending its message to the client instead of the status text.
ErrorReplyLeaks(status, message) ==
    [status |-> status, ctype |-> "text/plain; charset=utf-8",
     text |-> <<message, "\n">>,
     results |-> <<>>, log |-> message]

\* replyError: log the message, send only the status text (http.Error ends
\* the body with a newline).
ErrorReply(status, message) ==
    [status |-> status, ctype |-> "text/plain; charset=utf-8",
     text |-> <<StatusText(status), "\n">>,
     results |-> <<>>, log |-> message]

\* ------------------------------------------------------------------- state
VARIABLES
    file,       \* the list stored in the to-do file
    file0,      \* the list stored when the server started
    mu,         \* the mutex of newMux: 0 when free, else the goroutine holding it
    pc,         \* where each goroutine is in serving its request
    req,        \* the request each goroutine serves
    bodyIn,     \* whether the client has sent the whole body of each request
    list,       \* todoRouter's local list of each goroutine
    loaded,     \* history: the list as list.Get returned it to each goroutine
    loadErr,    \* history: the error list.Get returned, "" for nil
    replies,    \* the replies written to each request's ResponseWriter
    handlers,   \* history: the handlers invoked for each request, in order
    saves       \* history: the number of list.Save calls made for each request

vars == <<file, file0, mu, pc, req, bodyIn, list, loaded, loadErr, replies, handlers, saves>>

\* Texts of the errors list.Get and list.Save can return.
LoadErrors == {"read error", "unmarshal error"}
SaveError == "write error"

RECURSIVE ListsUpTo(_)
\* All lists of at most n items.
ListsUpTo(n) ==
    IF n = 0 THEN {<<>>}
    ELSE LET shorter == ListsUpTo(n - 1)
         IN  shorter \cup {Append(l, i) : l \in {s \in shorter : Len(s) = n - 1},
                                          i \in Items}

\* The state of a goroutine that serves no request.
Idle ==
    /\ pc = [p \in Procs |-> "idle"]
    /\ req = [p \in Procs |-> NoReq]
    /\ bodyIn = [p \in Procs |-> TRUE]
    /\ list = [p \in Procs |-> <<>>]
    /\ loaded = [p \in Procs |-> <<>>]
    /\ loadErr = [p \in Procs |-> ""]
    /\ replies = [p \in Procs |-> <<>>]
    /\ handlers = [p \in Procs |-> <<>>]
    /\ saves = [p \in Procs |-> 0]

\* The server starts with no to-do file: list.Get then loads the empty list.
Init ==
    /\ file = <<>>
    /\ file0 = file
    /\ mu = 0
    /\ Idle

\* ------------------------------------------------------------ reply helpers
\* One handler's whole effect on the request of p: the local list, the file,
\* the number of saves, the handler's name and the reply it wrote.
Effect(p, newList, newFile, nSaves, handler, reply) ==
    /\ list' = [list EXCEPT ![p] = newList]
    /\ file' = newFile
    /\ saves' = [saves EXCEPT ![p] = @ + nSaves]
    /\ handlers' = [handlers EXCEPT ![p] = Append(@, handler)]
    /\ replies' = [replies EXCEPT ![p] = Append(@, reply)]

\* A reply of the router itself: no handler runs, nothing is saved.
RouterReply(p, reply) ==
    /\ replies' = [replies EXCEPT ![p] = Append(@, reply)]
    /\ UNCHANGED <<list, file, saves, handlers>>

\* ----------------------------------------------------------------- handlers
\* validateID with the range check off by one: the last identifier is not
\* found.
validateIDOffByOne(path, l) ==
    LET a == Atoi(path)
    IN  IF ~a.ok THEN [id |-> 0, err |-> "ErrInvalidData", msg |-> "Invalid ID: syntax"]
        ELSE IF a.val < 1
        THEN [id |-> 0, err |-> "ErrInvalidData", msg |-> "Invalid ID: Less than one"]
        ELSE IF a.val >= Len(l)
        THEN [id |-> a.val, err |-> "ErrNoFound", msg |-> "ID not found"]
        ELSE [id |-> a.val, err |-> "nil", msg |-> ""]

\* validateID without the check against the length of the list.
validateIDNoUpperBound(path, l) ==
    LET a == Atoi(path)
    IN  IF ~a.ok THEN [id |-> 0, err |-> "ErrInvalidData", msg |-> "Invalid ID: syntax"]
        ELSE IF a.val < 1
        THEN [id |-> 0, err |-> "ErrInvalidData", msg |-> "Invalid ID: Less than one"]
        ELSE [id |-> a.val, err |-> "nil", msg |-> ""]

\* validateID: the identifier of a path against the list, or the error.
validateID(path, l) ==
    LET a == Atoi(path)
    IN  IF ~a.ok THEN [id |-> 0, err |-> "ErrInvalidData", msg |-> "Invalid ID: syntax"]
        ELSE IF a.val < 1
        THEN [id |-> 0, err |-> "ErrInvalidData", msg |-> "Invalid ID: Less than one"]
        ELSE IF a.val > Len(l)
        THEN [id |-> a.val, err |-> "ErrNoFound", msg |-> "ID not found"]
        ELSE [id |-> a.val, err |-> "nil", msg |-> ""]

\* getAllHandler: the whole list in a JSON envelope.
getAllHandler(p) ==
    Effect(p, list[p], file, 0, "getAllHandler", JSONReply(StatusOK, list[p]))

\* getOneHandler: the slice (*list)[id-1 : id] in a JSON envelope.
getOneHandler(p, id) ==
    Effect(p, list[p], file, 0, "getOneHandler",
           JSONReply(StatusOK, SubSeq(list[p], id, id)))

\* deleteHandler deleting the item before the identified one.
deleteHandlerOffByOne(p, id) ==
    LET l2 == ListDelete(list[p], id - 1)
    IN  \E saved \in BOOLEAN :
            IF saved
            THEN Effect(p, l2, l2, 1, "deleteHandler", TextReply(StatusNoContent, ""))
            ELSE Effect(p, l2, file, 1, "deleteHandler",
                        ErrorReply(StatusInternalServerError, SaveError))

\* deleteHandler: delete, save, reply 204; a failed save replies 500.
deleteHandler(p, id) ==
    LET l2 == ListDelete(list[p], id)
    IN  \E saved \in BOOLEAN :
            IF saved
            THEN Effect(p, l2, l2, 1, "deleteHandler", TextReply(StatusNoContent, ""))
            ELSE Effect(p, l2, file, 1, "deleteHandler",
                        ErrorReply(StatusInternalServerError, SaveError))

\* pathHandler flipping the done flag instead of setting it.
pathHandlerToggle(p, id) ==
    IF ~req[p].complete
    THEN Effect(p, list[p], file, 0, "pathHandler",
                ErrorReply(StatusBadRequest, "Missing query param 'complete'"))
    ELSE LET l2 == [list[p] EXCEPT ![id].Done = ~@]
         IN  \E saved \in BOOLEAN :
                 IF saved
                 THEN Effect(p, l2, l2, 1, "pathHandler", TextReply(StatusNoContent, ""))
                 ELSE Effect(p, l2, file, 1, "pathHandler",
                             ErrorReply(StatusInternalServerError, SaveError))

\* pathHandler without the check of the query parameter.
pathHandlerNoCheck(p, id) ==
    LET l2 == ListComplete(list[p], id)
    IN  \E saved \in BOOLEAN :
            IF saved
            THEN Effect(p, l2, l2, 1, "pathHandler", TextReply(StatusNoContent, ""))
            ELSE Effect(p, l2, file, 1, "pathHandler",
                        ErrorReply(StatusInternalServerError, SaveError))

\* pathHandler: without the query parameter reply 400; else complete, save,
\* reply 204; a failed save replies 500.
pathHandler(p, id) ==
    IF ~req[p].complete
    THEN Effect(p, list[p], file, 0, "pathHandler",
                ErrorReply(StatusBadRequest, "Missing query param 'complete'"))
    ELSE LET l2 == ListComplete(list[p], id)
         IN  \E saved \in BOOLEAN :
                 IF saved
                 THEN Effect(p, l2, l2, 1, "pathHandler", TextReply(StatusNoContent, ""))
                 ELSE Effect(p, l2, file, 1, "pathHandler",
                             ErrorReply(StatusInternalServerError, SaveError))

\* addHandler that replies 201 without saving the list.
addHandlerNoSave(p) ==
    LET item == Decode(req[p].body)
    IN  IF ~item.ok
        THEN Effect(p, list[p], file, 0, "addHandler",
                    ErrorReply(StatusBadRequest, "Invalid JSON"))
        ELSE Effect(p, ListAdd(list[p], item.Task), file, 0, "addHandler",
                    TextReply(StatusCreated, ""))

\* addHandler ignoring the error of list.Save: it replies 201 whether or not
\* the list was saved.
addHandlerIgnoreSaveError(p) ==
    LET item == Decode(req[p].body)
    IN  IF ~item.ok
        THEN Effect(p, list[p], file, 0, "addHandler",
                    ErrorReply(StatusBadRequest, "Invalid JSON"))
        ELSE LET l2 == ListAdd(list[p], item.Task)
             IN  \E saved \in BOOLEAN :
                     Effect(p, l2, IF saved THEN l2 ELSE file, 1, "addHandler",
                            TextReply(StatusCreated, ""))

\* addHandler looking at the decoding error only after it has added and saved
\* the item: a body that does not decode stores an item with an empty task.
addHandlerSavesInvalid(p) ==
    LET item == IF bodyIn[p] THEN Decode(req[p].body)
                ELSE [ok |-> FALSE, Task |-> ""]
        l2 == ListAdd(list[p], item.Task)
    IN  \E saved \in BOOLEAN :
            IF ~saved
            THEN Effect(p, l2, file, 1, "addHandler",
                        ErrorReply(StatusInternalServerError, SaveError))
            ELSE IF ~item.ok
            THEN Effect(p, l2, l2, 1, "addHandler",
                        ErrorReply(StatusBadRequest, "Invalid JSON"))
            ELSE Effect(p, l2, l2, 1, "addHandler", TextReply(StatusCreated, ""))

\* addHandler rejecting a body without a task text: it replies 400 when the
\* decoded task is empty.
addHandlerRequireTask(p) ==
    LET item == IF bodyIn[p] THEN Decode(req[p].body)
                ELSE [ok |-> FALSE, Task |-> ""]
    IN  IF ~item.ok \/ item.Task = ""
        THEN Effect(p, list[p], file, 0, "addHandler",
                    ErrorReply(StatusBadRequest, "Invalid JSON"))
        ELSE LET l2 == ListAdd(list[p], item.Task)
             IN  \E saved \in BOOLEAN :
                     IF saved
                     THEN Effect(p, l2, l2, 1, "addHandler", TextReply(StatusCreated, ""))
                     ELSE Effect(p, l2, file, 1, "addHandler",
                                 ErrorReply(StatusInternalServerError, SaveError))

\* addHandler: decode the body (400 when that fails), add, save, reply 201; a
\* failed save replies 500. Decode reads r.Body: while the client has not sent
\* the body the read blocks, and it fails when the server's ReadTimeout
\* expires first.
addHandler(p) ==
    LET item == IF bodyIn[p] THEN Decode(req[p].body)
                ELSE [ok |-> FALSE, Task |-> ""]
    IN  IF ~item.ok
        THEN Effect(p, list[p], file, 0, "addHandler",
                    ErrorReply(StatusBadRequest, "Invalid JSON"))
        ELSE LET l2 == ListAdd(list[p], item.Task)
             IN  \E saved \in BOOLEAN :
                     IF saved
                     THEN Effect(p, l2, l2, 1, "addHandler", TextReply(StatusCreated, ""))
                     ELSE Effect(p, l2, file, 1, "addHandler",
                                 ErrorReply(StatusInternalServerError, SaveError))

\* rootHandler without the check of the path.
rootReplyAnyPath(r) == TextReply(StatusOK, RootContent)

\* rootHandler's reply: 404 unless the path is exactly "/".
rootReply(r) ==
    IF r.path # RootPath THEN ErrorReply(StatusNotFound, "")
    ELSE TextReply(StatusOK, RootContent)

\* ------------------------------------------------------------------- steps
\* POST requests accepted and not yet handled.
AddsInFlight ==
    Cardinality({q \in Procs : pc[q] \in {"lock", "load", "route"}
                               /\ req[q].method = "POST"})

\* The server accepts request r on goroutine p and the mux picks its handler.
\* POSTs are only sent while the list they can build stays within maxLen.
Accept(p, r, maxLen) ==
    /\ pc[p] = "idle"
    /\ r.method = "POST" => Len(file) + AddsInFlight < maxLen
    /\ req' = [req EXCEPT ![p] = r]
    /\ bodyIn' = [bodyIn EXCEPT ![p] = TRUE]
    /\ pc' = [pc EXCEPT ![p] = IF MuxPattern(r.path) = "/" THEN "root" ELSE "lock"]
    /\ UNCHANGED <<file, file0, mu, list, loaded, loadErr, replies, handlers, saves>>

\* The same for a POST whose client has sent the headers and not yet the
\* body: net/http hands the request to the handler as soon as the headers are
\* read, and r.Body is read from the connection when the handler reads it.
AcceptSlow(p, r, maxLen) ==
    /\ pc[p] = "idle"
    /\ r.method = "POST"
    /\ Len(file) + AddsInFlight < maxLen
    /\ req' = [req EXCEPT ![p] = r]
    /\ bodyIn' = [bodyIn EXCEPT ![p] = FALSE]
    /\ pc' = [pc EXCEPT ![p] = IF MuxPattern(r.path) = "/" THEN "root" ELSE "lock"]
    /\ UNCHANGED <<file, file0, mu, list, loaded, loadErr, replies, handlers, saves>>

\* The client sends the body of its request, at a time of its choosing.
ClientSendsBody(p) ==
    /\ pc[p] \in {"lock", "load", "route"}
    /\ ~bodyIn[p]
    /\ bodyIn' = [bodyIn EXCEPT ![p] = TRUE]
    /\ UNCHANGED <<file, file0, mu, pc, req, list, loaded, loadErr, replies,
                   handlers, saves>>

\* The goroutine of p is through with its request: it forgets it and is ready
\* for the next one.
Forget(p) ==
    /\ pc' = [pc EXCEPT ![p] = "idle"]
    /\ req' = [req EXCEPT ![p] = NoReq]
    /\ bodyIn' = [bodyIn EXCEPT ![p] = TRUE]
    /\ list' = [list EXCEPT ![p] = <<>>]
    /\ loaded' = [loaded EXCEPT ![p] = <<>>]
    /\ loadErr' = [loadErr EXCEPT ![p] = ""]
    /\ replies' = [replies EXCEPT ![p] = <<>>]
    /\ handlers' = [handlers EXCEPT ![p] = <<>>]
    /\ saves' = [saves EXCEPT ![p] = 0]

\* rootHandler serves the request; it takes no lock and reads no list.
RootHandler(p) ==
    /\ pc[p] = "root"
    /\ replies' = [replies EXCEPT ![p] = Append(@, rootReply(req[p]))]
    /\ handlers' = [handlers EXCEPT ![p] = Append(@, "rootHandler")]
    /\ pc' = [pc EXCEPT ![p] = "return"]
    /\ UNCHANGED <<file, file0, mu, req, bodyIn, list, loaded, loadErr, saves>>

\* rootHandler returns.
Return(p) ==
    /\ pc[p] = "return"
    /\ Forget(p)
    /\ UNCHANGED <<file, file0, mu>>

\* Lock as a bug would have it: the goroutine goes on whether or not another
\* one holds the mutex.
LockNoWait(p) ==
    /\ pc[p] = "lock"
    /\ mu' = p
    /\ pc' = [pc EXCEPT ![p] = "load"]
    /\ UNCHANGED <<file, file0, req, bodyIn, list, loaded, loadErr, replies, handlers, saves>>

\* l.Lock(): blocks until the mutex is free.
Lock(p) ==
    /\ pc[p] = "lock"
    /\ mu = 0
    /\ mu' = p
    /\ pc' = [pc EXCEPT ![p] = "load"]
    /\ UNCHANGED <<file, file0, req, bodyIn, list, loaded, loadErr, replies, handlers, saves>>

\* Load without the return after the 500 reply: the router goes on with the
\* empty list.
LoadNoReturn(p) ==
    /\ pc[p] = "load"
    /\ \/ /\ list' = [list EXCEPT ![p] = file]
          /\ loaded' = [loaded EXCEPT ![p] = file]
          /\ UNCHANGED <<replies, loadErr>>
       \/ \E e \in LoadErrors :
            /\ loadErr' = [loadErr EXCEPT ![p] = e]
            /\ replies' = [replies EXCEPT ![p] =
                             Append(@, ErrorReply(StatusInternalServerError, e))]
            /\ UNCHANGED <<list, loaded>>
    /\ pc' = [pc EXCEPT ![p] = "route"]
    /\ UNCHANGED <<file, file0, mu, req, bodyIn, handlers, saves>>

\* Load in a router that keeps the list it read at startup instead of reading
\* the file on every request.
LoadCached(p) ==
    /\ pc[p] = "load"
    /\ \/ /\ list' = [list EXCEPT ![p] = file0]
          /\ loaded' = [loaded EXCEPT ![p] = file0]
          /\ pc' = [pc EXCEPT ![p] = "route"]
          /\ UNCHANGED <<replies, loadErr>>
       \/ \E e \in LoadErrors :
            /\ loadErr' = [loadErr EXCEPT ![p] = e]
            /\ replies' = [replies EXCEPT ![p] =
                             Append(@, ErrorReply(StatusInternalServerError, e))]
            /\ pc' = [pc EXCEPT ![p] = "unlock"]
            /\ UNCHANGED <<list, loaded>>
    /\ UNCHANGED <<file, file0, mu, req, bodyIn, handlers, saves>>

\* Load in a router that unlocks at its end instead of deferring the unlock:
\* the return after a failed load leaves the mutex locked.
LoadNoUnlock(p) ==
    /\ pc[p] = "load"
    /\ \/ /\ list' = [list EXCEPT ![p] = file]
          /\ loaded' = [loaded EXCEPT ![p] = file]
          /\ pc' = [pc EXCEPT ![p] = "route"]
          /\ UNCHANGED <<replies, loadErr>>
       \/ \E e \in LoadErrors :
            /\ loadErr' = [loadErr EXCEPT ![p] = e]
            /\ replies' = [replies EXCEPT ![p] =
                             Append(@, ErrorReply(StatusInternalServerError, e))]
            /\ pc' = [pc EXCEPT ![p] = "done"]
            /\ UNCHANGED <<list, loaded>>
    /\ UNCHANGED <<file, file0, mu, req, bodyIn, handlers, saves>>

\* list.Get(todoFile): the stored list, or an error and the 500 reply.
Load(p) ==
    /\ pc[p] = "load"
    /\ \/ /\ list' = [list EXCEPT ![p] = file]
          /\ loaded' = [loaded EXCEPT ![p] = file]
          /\ pc' = [pc EXCEPT ![p] = "route"]
          /\ UNCHANGED <<replies, loadErr>>
       \/ \E e \in LoadErrors :
            /\ loadErr' = [loadErr EXCEPT ![p] = e]
            /\ replies' = [replies EXCEPT ![p] =
                             Append(@, ErrorReply(StatusInternalServerError, e))]
            /\ pc' = [pc EXCEPT ![p] = "unlock"]
            /\ UNCHANGED <<list, loaded>>
    /\ UNCHANGED <<file, file0, mu, req, bodyIn, handlers, saves>>

\* The switch on the collection path without its default case: other methods
\* get no reply from the router.
routeCollectionNoDefault(p) ==
    CASE req[p].method = "GET" -> getAllHandler(p)
      [] req[p].method = "POST" -> addHandler(p)
      [] OTHER -> UNCHANGED <<list, file, saves, handlers, replies>>

\* The switch of todoRouter on the collection path.
routeCollection(p) ==
    CASE req[p].method = "GET" -> getAllHandler(p)
      [] req[p].method = "POST" -> addHandler(p)
      [] OTHER -> RouterReply(p, ErrorReply(StatusMethodNotAllowed,
                                            "Method not supported"))

\* The switch of todoRouter on an item path with the validated identifier.
routeItem(p, id) ==
    CASE req[p].method = "GET" -> getOneHandler(p, id)
      [] req[p].method = "DELETE" -> deleteHandler(p, id)
      [] req[p].method = "PATCH" -> pathHandler(p, id)
      [] OTHER -> RouterReply(p, ErrorReply(StatusMethodNotAllowed,
                                            "Method not supported"))

\* todoRouter looking at the method of an item request before its identifier:
\* an unsupported method replies 405 whatever the path.
RouteMethodFirst(p) ==
    /\ pc[p] = "route"
    /\ LET path == RouterPath(req[p].path)
       IN  IF path = <<>> THEN routeCollection(p)
           ELSE IF req[p].method \notin {"GET", "DELETE", "PATCH"}
           THEN RouterReply(p, ErrorReply(StatusMethodNotAllowed,
                                          "Method not supported"))
           ELSE LET v == validateID(path, list[p])
                IN  IF v.err = "ErrNoFound"
                    THEN RouterReply(p, ErrorReply(StatusNotFound, v.msg))
                    ELSE IF v.err # "nil"
                    THEN RouterReply(p, ErrorReply(StatusBadRequest, v.msg))
                    ELSE routeItem(p, v.id)
    /\ pc' = [pc EXCEPT ![p] = "unlock"]
    /\ UNCHANGED <<file0, mu, req, bodyIn, loaded, loadErr>>

\* todoRouter after a successful load: dispatch on path and method, run the
\* handler to its reply.
Route(p) ==
    /\ pc[p] = "route"
    /\ LET path == RouterPath(req[p].path)
       IN  IF path = <<>> THEN routeCollection(p)
           ELSE LET v == validateID(path, list[p])
                IN  IF v.err = "ErrNoFound"
                    THEN RouterReply(p, ErrorReply(StatusNotFound, v.msg))
                    ELSE IF v.err # "nil"
                    THEN RouterReply(p, ErrorReply(StatusBadRequest, v.msg))
                    ELSE routeItem(p, v.id)
    /\ pc' = [pc EXCEPT ![p] = "unlock"]
    /\ UNCHANGED <<file0, mu, req, bodyIn, loaded, loadErr>>

\* The deferred l.Unlock() as the closure returns; the goroutine then
\* forgets the request.
Unlock(p) ==
    /\ pc[p] = "unlock"
    /\ mu' = 0
    /\ Forget(p)
    /\ UNCHANGED <<file, file0>>

\* The same unlock of a goroutine that serves one request only: what it did
\* stays on record.
UnlockLast(p) ==
    /\ pc[p] = "unlock"
    /\ mu' = 0
    /\ pc' = [pc EXCEPT ![p] = "done"]
    /\ UNCHANGED <<file, file0, req, bodyIn, list, loaded, loadErr, replies, handlers, saves>>

\* ---------------------------------------------------------- specifications
\* Requests of the concurrent specification: every method, on the collection
\* path and on the item paths of identifiers 1 and 2.
ConcShapes ==
    {<<"GET", TodoPrefix>>, <<"POST", TodoPrefix>>, <<"PUT", TodoPrefix>>,
     <<"GET", TodoSlashPrefix \o <<"1">>>>, <<"GET", TodoSlashPrefix \o <<"2">>>>,
     <<"DELETE", TodoSlashPrefix \o <<"1">>>>,
     <<"DELETE", TodoSlashPrefix \o <<"2">>>>,
     <<"PATCH", TodoSlashPrefix \o <<"1">>>>,
     <<"PUT", TodoSlashPrefix \o <<"1">>>>}

ConcRequests ==
    {r \in Requests :
        /\ <<r.method, r.path>> \in ConcShapes
        /\ r.complete = (r.method = "PATCH")
        /\ r.method = "POST" => r.body.kind = "task"}

Arrive(p) == \E r \in ConcRequests : Accept(p, r, MaxConcLen)

ArriveSlow(p) == \E r \in ConcRequests : AcceptSlow(p, r, MaxConcLen)

\* Concurrent goroutines, each serving one request to the todo routes after
\* another.
Next ==
    \E p \in Procs :
        \/ Arrive(p)
        \/ ArriveSlow(p)
        \/ ClientSendsBody(p)
        \/ Lock(p)
        \/ Load(p)
        \/ Route(p)
        \/ Unlock(p)

Spec == Init /\ [][Next]_vars

\* Scheduling: a goroutine that can take a step of its router takes it (file
\* I/O returns, and a body read returns at the latest when ReadTimeout
\* expires); sync.Mutex hands the lock to a goroutine that keeps waiting for it
\* (its starvation mode), so a waiter that can lock again and again does lock.
Fairness ==
    \A p \in Procs :
        /\ SF_vars(Lock(p))
        /\ WF_vars(Load(p))
        /\ WF_vars(Route(p))
        /\ WF_vars(Unlock(p))

SpecFair == Spec /\ Fairness

\* One goroutine serving one request after another, of every shape.
ArriveSeq == \E r \in Requests : Accept(1, r, MaxLen)

NextSeq ==
    \/ ArriveSeq
    \/ RootHandler(1)
    \/ Return(1)
    \/ Lock(1)
    \/ Load(1)
    \/ Route(1)
    \/ Unlock(1)

SpecSeq == Init /\ [][NextSeq]_vars

\* Concurrent goroutines that each serve one POST to the collection, from any
\* stored list of at most MaxInitLen items.
AddRequests ==
    {r \in Requests :
        /\ r.method = "POST"
        /\ r.path = TodoPrefix
        /\ ~r.complete
        /\ r.body.kind \in {"task", "notask", "malformed"}}

ArriveAdd(p) == \E r \in AddRequests : Accept(p, r, MaxInitLen + NProcs)

InitAdd ==
    /\ file \in ListsUpTo(MaxInitLen)
    /\ file0 = file
    /\ mu = 0
    /\ Idle

NextAdd ==
    \E p \in Procs :
        \/ ArriveAdd(p)
        \/ Lock(p)
        \/ Load(p)
        \/ Route(p)
        \/ UnlockLast(p)

SpecAdd == InitAdd /\ [][NextAdd]_vars

\* Concurrent goroutines that each serve one DELETE of item 1 or 2, from any
\* stored list of at most MaxLen items.
DelRequests ==
    {r \in Requests :
        /\ r.method = "DELETE"
        /\ r.path \in {TodoSlashPrefix \o <<"1">>, TodoSlashPrefix \o <<"2">>}
        /\ ~r.complete}

ArriveDel(p) == \E r \in DelRequests : Accept(p, r, MaxLen)

InitDel ==
    /\ file \in ListsUpTo(MaxLen)
    /\ file0 = file
    /\ mu = 0
    /\ Idle

NextDel ==
    \E p \in Procs :
        \/ ArriveDel(p)
        \/ Lock(p)
        \/ Load(p)
        \/ Route(p)
        \/ UnlockLast(p)

SpecDel == InitDel /\ [][NextDel]_vars

\* ---------------------------------------------------------------- claims
\* The stages of todoRouter between l.Lock() returning and the deferred
\* l.Unlock(): loading, dispatching and handling, replied.
Critical == {"load", "route", "unlock"}

\* The one reply of a request that has replied.
Reply(p) == replies[p][1]

\* p serves a request to the todo routes, has a reply and still holds the lock.
Replied(p) == pc[p] = "unlock" /\ Len(replies[p]) = 1

\* C1: at most one request at a time is between loading the list and the end
\* of its save and reply: whoever loads, handles or has just replied holds
\* the mutex, took it before loading and keeps it until it has replied, and
\* nobody else is in those stages.
C1_OneRequestInCriticalSection ==
    /\ \A p, q \in Procs : p # q => ~(pc[p] \in Critical /\ pc[q] \in Critical)
    /\ \A p \in Procs : pc[p] \in Critical <=> mu = p
    /\ \A p \in Procs : pc[p] \in {"idle", "lock", "load", "route"} => replies[p] = <<>>
    /\ \A p \in Procs : pc[p] \in {"idle", "lock", "load"} => loaded[p] = <<>>

\* A request is handling a loaded list of two items while another waits for
\* the lock.
C1_Witness ==
    \E p, q \in Procs :
        /\ p # q
        /\ pc[p] = "route" /\ Len(list[p]) = 2 /\ mu = p
        /\ pc[q] = "lock" /\ req[q].method = "DELETE"

\* The goroutines whose POST has replied 201.
Added == {p \in Procs : pc[p] \in {"unlock", "done"} /\ replies[p] # <<>>
                        /\ Reply(p).status = StatusCreated}

\* C2: no lost update.  Of the POSTs that replied 201 no two loaded the same
\* list, and the stored list is the list stored at the start followed by
\* every added task, one item for each, in the order they loaded.
C2_NoLostUpdate ==
    /\ \A p, q \in Added : p # q => loaded[p] # loaded[q]
    /\ Len(file) = Len(file0) + Cardinality(Added)
    /\ SubSeq(file, 1, Len(file0)) = file0
    /\ \A p \in Added :
         /\ Len(loaded[p]) < Len(file)
         /\ file[Len(loaded[p]) + 1] =
              [Task |-> Decode(req[p].body).Task, Done |-> FALSE]

\* Every goroutine has served a POST that replied 201, with different task
\* texts, on a list that was not empty.
C2_Witness ==
    /\ \A p \in Procs : pc[p] = "done" /\ p \in Added
    /\ file0 # <<>>
    /\ Len(file) = Len(file0) + NProcs
    /\ \E p, q \in Procs : req[p].body # req[q].body

\* The URL path /todo/<i> of the integer i, for -1 <= i <= 9.
IdPath(i) ==
    IF i < 0 THEN TodoSlashPrefix \o <<"-", DigitChars[1 - i]>>
    ELSE TodoSlashPrefix \o <<DigitChars[i + 1]>>

\* The identifiers requests carry.
Ids == (0 - 1)..(MaxLen + 1)

\* The two spellings of the collection path.
CollectionPaths == {TodoPrefix, TodoSlashPrefix}

\* p has replied to a request of the given method and path whose load
\* succeeded.
Served(p, method, path) ==
    /\ Replied(p)
    /\ loadErr[p] = ""
    /\ req[p].method = method
    /\ req[p].path = path

\* A reply of 500 comes from a failed save only.
SavedOr500(p, status) ==
    /\ Reply(p).status \in {status, StatusInternalServerError}
    /\ Reply(p).status = StatusInternalServerError => Reply(p).log = SaveError

\* list-all replies 200 with the stored list, whole and in order.
ListAllReturnsFile ==
    \A p \in Procs : \A path \in CollectionPaths :
        Served(p, "GET", path) => Reply(p) = JSONReply(StatusOK, file)

\* C3: GET /todo/{i} on the stored list L replies 200 with exactly the item
\* at position i iff 1 <= i <= len(L); it replies 400 when i < 1 and 404 when
\* i > len(L).
C3_GetOne ==
    \A p \in Procs : \A i \in Ids :
        Served(p, "GET", IdPath(i)) =>
            /\ Reply(p).status = StatusOK <=> (1 <= i /\ i <= Len(file))
            /\ (1 <= i /\ i <= Len(file)) => Reply(p) = JSONReply(StatusOK, <<file[i]>>)
            /\ i < 1 => Reply(p).status = StatusBadRequest
            /\ i > Len(file) => Reply(p).status = StatusNotFound

\* GET /todo/2 has replied with the second of three stored items.
C3_Witness ==
    \E p \in Procs :
        /\ Served(p, "GET", IdPath(2))
        /\ Len(file) = 3
        /\ Reply(p).status = StatusOK
        /\ Reply(p).results = <<file[2]>>

\* C4: DELETE /todo/{i} with 1 <= i <= len(L) whose save succeeds replies 204
\* and leaves stored, for the next list-all to return, a list of length
\* len(L)-1: the items before i unchanged, every later item one position down.
C4_DeleteShifts ==
    /\ \A p \in Procs : \A i \in 1..MaxLen :
         (Served(p, "DELETE", IdPath(i)) /\ i <= Len(loaded[p])) =>
            /\ SavedOr500(p, StatusNoContent)
            /\ Reply(p).status = StatusNoContent =>
                 /\ Len(file) = Len(loaded[p]) - 1
                 /\ \A k \in 1..(i - 1) : file[k] = loaded[p][k]
                 /\ \A k \in i..(Len(loaded[p]) - 1) : file[k] = loaded[p][k + 1]
    /\ ListAllReturnsFile

\* DELETE /todo/2 has replied 204 on a list of three different items.
C4_Witness ==
    \E p \in Procs :
        /\ Served(p, "DELETE", IdPath(2))
        /\ Len(loaded[p]) = 3
        /\ loaded[p][1] # loaded[p][2] /\ loaded[p][2] # loaded[p][3]
        /\ Reply(p).status = StatusNoContent
        /\ file = <<loaded[p][1], loaded[p][3]>>

\* C5: POST /todo with body {"task": t} whose save succeeds replies 201 and
\* leaves stored, for the next list-all to return, the list L followed by one
\* item with task t and done = false.
C5_AddAppends ==
    /\ \A p \in Procs : \A path \in CollectionPaths : \A t \in Tasks :
         (Served(p, "POST", path) /\ req[p].body = [kind |-> "task", task |-> t]) =>
            /\ SavedOr500(p, StatusCreated)
            /\ Reply(p).status = StatusCreated =>
                 /\ Len(file) = Len(loaded[p]) + 1
                 /\ SubSeq(file, 1, Len(loaded[p])) = loaded[p]
                 /\ file[Len(file)] = [Task |-> t, Done |-> FALSE]
    /\ \A p \in Procs : \A path \in CollectionPaths :
         Served(p, "GET", path) =>
            Reply(p).status = StatusOK /\ Reply(p).results = file

\* POST /todo has replied 201 on a list of two items, one of them done.
C5_Witness ==
    \E p \in Procs :
        /\ Served(p, "POST", TodoPrefix)
        /\ req[p].body.kind = "task"
        /\ Len(loaded[p]) = 2 /\ loaded[p][1].Done
        /\ Reply(p).status = StatusCreated
        /\ Len(file) = 3

\* C6: PATCH /todo/{i}?complete with a valid i replies 204 whether or not
\* item i was done already, and then item i is done, its task, every other
\* item and the length are unchanged; on an item already done the stored
\* list does not change at all.
C6_CompleteIdempotent ==
    \A p \in Procs : \A i \in 1..MaxLen :
        (Served(p, "PATCH", IdPath(i)) /\ req[p].complete /\ i <= Len(loaded[p])) =>
            /\ SavedOr500(p, StatusNoContent)
            /\ Reply(p).status = StatusNoContent =>
                 /\ Len(file) = Len(loaded[p])
                 /\ file[i].Done
                 /\ file[i].Task = loaded[p][i].Task
                 /\ \A k \in 1..Len(file) : k # i => file[k] = loaded[p][k]
                 /\ loaded[p][i].Done => file = loaded[p]

\* PATCH /todo/2?complete has replied 204 on an item that was done already.
C6_Witness ==
    \E p \in Procs :
        /\ Served(p, "PATCH", IdPath(2))
        /\ req[p].complete
        /\ Len(loaded[p]) = 3
        /\ loaded[p][2].Done /\ ~loaded[p][1].Done
        /\ Reply(p).status = StatusNoContent

\* C7: PATCH /todo/{i} with a valid i and no 'complete' query parameter
\* replies 400, calls no save and leaves the stored list as it was loaded.
C7_PatchWithoutComplete ==
    \A p \in Procs : \A i \in 1..MaxLen :
        (Served(p, "PATCH", IdPath(i)) /\ ~req[p].complete /\ i <= Len(loaded[p])) =>
            /\ Reply(p).status = StatusBadRequest
            /\ saves[p] = 0
            /\ file = loaded[p]

\* PATCH /todo/1 without the parameter has replied on an item not done.
C7_Witness ==
    \E p \in Procs :
        /\ Served(p, "PATCH", IdPath(1))
        /\ ~req[p].complete
        /\ Len(file) >= 1 /\ ~file[1].Done
        /\ Reply(p).status = StatusBadRequest

\* What holds of a request whose load has failed: it has its one reply, the
\* 500 of the router with the load error logged, no handler has run, nothing
\* was saved, and it is at the deferred unlock, still holding the lock.
LoadFailed(p) ==
    /\ pc[p] = "unlock"
    /\ mu = p
    /\ replies[p] = <<ErrorReply(StatusInternalServerError, loadErr[p])>>
    /\ handlers[p] = <<>>
    /\ saves[p] = 0

\* C8: when the load fails the request replies 500 whatever its method and
\* path, no handler is invoked, nothing is saved, and its next step releases
\* the lock and ends the request with the stored list untouched.
C8_LoadFailure ==
    [][\A p \in Procs :
          /\ loadErr'[p] # "" => LoadFailed(p)'
          /\ loadErr[p] # "" =>
               /\ file' = file
               /\ pc'[p] # "unlock" => (pc'[p] = "idle" /\ mu' = 0)]_vars

\* The load has failed for a PUT on a path that is no identifier, with two
\* items stored: the request has replied 500, not 400 or 405.
C8_Witness ==
    \E p \in Procs :
        /\ loadErr[p] # ""
        /\ pc[p] = "unlock"
        /\ req[p].method = "PUT" /\ req[p].path = TodoSlashPrefix \o <<"a">>
        /\ Reply(p).status = StatusInternalServerError
        /\ Len(file) = 2

HasHandler(p) ==
    \/ req[p].path \in CollectionPaths /\ req[p].method \in {"GET", "POST"}
    \/ /\ req[p].method \in {"GET", "DELETE", "PATCH"}
       /\ \E i \in 1..Len(loaded[p]) :
            req[p].path \in {IdPath(i), TodoSlashPrefix \o <<"+", DigitChars[i + 1]>>}

\* The 405 replies of the router: other methods on the collection path and on
\* the path of a valid identifier, with the stored list left as it was.
Replies405(p) ==
    /\ (req[p].path \in CollectionPaths /\ req[p].method \notin {"GET", "POST"})
         => Reply(p).status = StatusMethodNotAllowed
    /\ \A i \in 1..Len(loaded[p]) :
         (req[p].path = IdPath(i) /\ req[p].method \notin {"GET", "DELETE", "PATCH"})
             => Reply(p).status = StatusMethodNotAllowed
    /\ Reply(p).status = StatusMethodNotAllowed =>
         file = loaded[p] /\ saves[p] = 0

\* C10 as claimed: after a successful load every request has exactly one
\* handler invoked and exactly one reply, with the 405 replies above.
C10_ExactlyOneHandler ==
    \A p \in Procs :
        (pc[p] = "unlock" /\ loadErr[p] = "") =>
            /\ Len(handlers[p]) = 1
            /\ Len(replies[p]) = 1
            /\ Replies405(p)

\* C10 as amended: after a successful load every request has exactly one
\* reply and at most one handler invoked: exactly one when the router has a
\* handler for its path and method, none when the router itself replies 400,
\* 404 or 405; with the 405 replies above.
C10_OneReplyAtMostOneHandler ==
    \A p \in Procs :
        (pc[p] = "unlock" /\ loadErr[p] = "") =>
            /\ Len(replies[p]) = 1
            /\ Len(handlers[p]) = IF HasHandler(p) THEN 1 ELSE 0
            /\ Replies405(p)

\* A PUT of /todo/1 on a list of two items has replied 405 with no handler
\* invoked.
C10_Witness ==
    \E p \in Procs :
        /\ Served(p, "PUT", IdPath(1))
        /\ Len(file) = 2
        /\ Reply(p).status = StatusMethodNotAllowed
        /\ handlers[p] = <<>>

\* The standard reason text of the error statuses.
ReasonText ==
    [s \in {400, 404, 405, 500} |->
        CASE s = 400 -> "Bad Request"
          [] s = 404 -> "Not Found"
          [] s = 405 -> "Method Not Allowed"
          [] s = 500 -> "Internal Server Error"]

\* The client-visible part of a reply.
Visible(r) == [status |-> r.status, ctype |-> r.ctype, text |-> r.text,
               results |-> r.results]

\* The reply every client gets with an error status: the reason text of the
\* status and a newline, as plain text.
ErrorBody(status) ==
    [status |-> status, ctype |-> "text/plain; charset=utf-8",
     text |-> <<ReasonText[status], "\n">>, results |-> <<>>]

\* C11: the body of an error reply depends on its status alone: whatever the
\* message logged for it, the client gets the reason text of the status (and
\* the newline http.Error ends it with), so two error replies of the same
\* status are the same to the client.
C11_ErrorBodyByStatusOnly ==
    /\ \A p \in Procs :
         (replies[p] # <<>> /\ Reply(p).status >= 400) =>
            /\ Reply(p).status \in DOMAIN ReasonText
            /\ Visible(Reply(p)) = ErrorBody(Reply(p).status)
    /\ \A p, q \in Procs :
         (replies[p] # <<>> /\ replies[q] # <<>>
            /\ Reply(p).status >= 400 /\ Reply(p).status = Reply(q).status)
         => Visible(Reply(p)) = Visible(Reply(q))

\* A request has replied 400 for an identifier below one: the log has the
\* message, the body has the reason text only.
C11_Witness ==
    \E p \in Procs :
        /\ Replied(p)
        /\ Reply(p).status = StatusBadRequest
        /\ Reply(p).log = "Invalid ID: Less than one"
        /\ Reply(p).text = <<"Bad Request", "\n">>

\* What a collection-level request of the given method and body may come to on
\* the loaded list l: the set of pairs of client-visible reply and stored list.
\* The path is no part of it.
CollectionOutcomes(method, body, l) ==
    CASE method = "GET" ->
            {<<Visible(JSONReply(StatusOK, l)), l>>}
      [] method = "POST" /\ body.kind \in {"task", "notask"} ->
            LET l2 == Append(l, [Task |-> body.task, Done |-> FALSE])
            IN  {<<Visible(TextReply(StatusCreated, "")), l2>>,
                 <<ErrorBody(StatusInternalServerError), l>>}
      [] method = "POST" -> {<<ErrorBody(StatusBadRequest), l>>}
      [] OTHER -> {<<ErrorBody(StatusMethodNotAllowed), l>>}

\* C12: /todo and /todo/ are equivalent: a request to either is routed with
\* the empty path, as a collection-level request, and its status, body and
\* effect on storage are those of its method, body and stored list alone; a
\* failed load replies 500 on both.
C12_TrailingSlashEquivalent ==
    \A p \in Procs : \A path \in CollectionPaths :
        (Replied(p) /\ req[p].path = path) =>
            /\ RouterPath(path) = <<>>
            /\ IF loadErr[p] # ""
               THEN Visible(Reply(p)) = ErrorBody(StatusInternalServerError)
               ELSE <<Visible(Reply(p)), file>>
                        \in CollectionOutcomes(req[p].method, req[p].body, loaded[p])

\* A POST to /todo/ has replied 201 and stored its item after two others.
C12_Witness ==
    \E p \in Procs :
        /\ Served(p, "POST", TodoSlashPrefix)
        /\ req[p].body.kind = "task"
        /\ Len(loaded[p]) = 2
        /\ Reply(p).status = StatusCreated
        /\ Len(file) = 3

\* Item paths whose last segment is no base-10 integer.
NotIntegerPaths == {TodoSlashPrefix \o <<"a">>, TodoSlashPrefix \o <<"1", "a">>}

\* The router itself has replied to p with the status: no handler has run,
\* nothing was saved and the stored list is the one loaded.
RouterRejected(p, status) ==
    /\ Reply(p).status = status
    /\ handlers[p] = <<>>
    /\ saves[p] = 0
    /\ file = loaded[p]

\* C13: on an item path the identifier is validated before the method and
\* the query are looked at: for every method, with or without 'complete', a
\* path that is no integer or an integer below 1 replies 400 and an integer
\* above the length of the list replies 404, with no handler run and storage
\* unchanged.
C13_IdValidatedFirst ==
    \A p \in Procs : \A m \in Methods :
        /\ \A path \in NotIntegerPaths :
             Served(p, m, path) => RouterRejected(p, StatusBadRequest)
        /\ \A i \in Ids :
             Served(p, m, IdPath(i)) =>
                /\ i < 1 => RouterRejected(p, StatusBadRequest)
                /\ i > Len(loaded[p]) => RouterRejected(p, StatusNotFound)

\* A PUT of /todo/0 has replied 400 on a list of two items: not the 405 of
\* its method.
C13_Witness ==
    \E p \in Procs :
        /\ Served(p, "PUT", IdPath(0))
        /\ Len(file) = 2
        /\ RouterRejected(p, StatusBadRequest)

\* The handlers that index the list with the identifier.
IndexingHandlers == {"getOneHandler", "deleteHandler", "pathHandler"}

\* p is about to hand the identifier of its path to a handler that indexes
\* the list with it.
AboutToIndex(p) ==
    /\ pc[p] = "route"
    /\ RouterPath(req[p].path) # <<>>
    /\ req[p].method \in {"GET", "DELETE", "PATCH"}
    /\ validateID(RouterPath(req[p].path), list[p]).err = "nil"

\* C14: whenever get-one, delete or complete indexes the list with an
\* identifier, 1 <= id <= length of the list indexed: the list validated
\* against is the one loaded under the lock the request still holds, it is
\* the stored list, and it is the list the handler indexes.
C14_IndexInRange ==
    \A p \in Procs :
        /\ pc[p] = "route" => (mu = p /\ list[p] = loaded[p] /\ list[p] = file)
        /\ AboutToIndex(p) =>
             LET id == validateID(RouterPath(req[p].path), list[p]).id
             IN  1 <= id /\ id <= Len(list[p]) /\ id <= Len(file)
        /\ \A i \in 1..9 :
             (pc[p] = "unlock" /\ handlers[p] # <<>>
                /\ handlers[p][1] \in IndexingHandlers /\ req[p].path = IdPath(i))
             => i <= Len(loaded[p])

\* A DELETE of /todo/2 is about to delete the second of two items while
\* another DELETE of /todo/2 waits for the lock.
C14_Witness ==
    \E p, q \in Procs :
        /\ p # q
        /\ AboutToIndex(p)
        /\ req[p].method = "DELETE" /\ req[p].path = IdPath(2)
        /\ Len(list[p]) = 2
        /\ pc[q] = "lock"
        /\ req[q].method = "DELETE" /\ req[q].path = IdPath(2)

\* What holds of a request that has replied after a successful load: it has
\* called list.Save at most once; a reply of 201 or 204 means the save stored
\* its list; and when the save did not store its list the reply is 500 and
\* the stored list is still the one loaded.
SaveOutcome(p) ==
    (pc[p] = "unlock" /\ loadErr[p] = "") =>
        /\ saves[p] <= 1
        /\ Reply(p).status \in {StatusCreated, StatusNoContent} =>
             (saves[p] = 1 /\ file = list[p])
        /\ (saves[p] = 1 /\ file # list[p]) =>
             /\ Reply(p).status = StatusInternalServerError
             /\ Len(replies[p]) = 1
             /\ file = loaded[p]

\* C15: when the save of add, delete or complete fails the request replies
\* 500, never 201 or 204, and does not save again; the list it changed in
\* memory is dropped with the request, and every request that loads gets the
\* list as stored in the file.
C15_SaveFailure ==
    [][\A p \in Procs :
          /\ SaveOutcome(p)'
          /\ (pc[p] = "load" /\ pc'[p] = "route") =>
                (list'[p] = file /\ loaded'[p] = file)
          /\ (pc[p] = "unlock" /\ pc'[p] = "idle") =>
                (list'[p] = <<>> /\ file' = file)]_vars

\* A POST has replied 500 after its save failed: its list has the new item,
\* the file has not.
C15_Witness ==
    \E p \in Procs :
        /\ Served(p, "POST", TodoPrefix)
        /\ saves[p] = 1
        /\ Reply(p).status = StatusInternalServerError
        /\ Reply(p).log = SaveError
        /\ Len(file) = 1
        /\ Len(list[p]) = 2

\* p holds the lock and its addHandler is blocked in Decode, reading a body the
\* client has not sent.
WaitsForClient(p) ==
    /\ mu = p
    /\ pc[p] = "route"
    /\ req[p].method = "POST"
    /\ RouterPath(req[p].path) = <<>>
    /\ ~bodyIn[p]

\* C16: a request that holds the lock never waits on the client: no request
\* to the todo routes waits for the lock while its holder waits for the body
\* of a POST /todo.
C16_NoClientWaitUnderLock ==
    \A p \in Procs : \A q \in Procs \ {p} :
        (mu = p /\ pc[q] = "lock") => ~WaitsForClient(p)

\* The methods of the add, delete and complete requests.
MutatingMethods == {"POST", "DELETE", "PATCH"}

\* The step is the handling of a mutating request of p that passed its checks.
MutationSucceeds(p) ==
    /\ pc[p] = "route"
    /\ pc'[p] = "unlock"
    /\ req[p].method \in MutatingMethods
    /\ Len(replies'[p]) = 1
    /\ replies'[p][1].status \in {StatusCreated, StatusNoContent}

\* A replied GET, or a request replied with 400, 404 or 405, has not saved and
\* the stored list is the one it loaded, if it loaded one.
RejectedLeavesStorage(p) ==
    (Replied(p) /\ (req[p].method = "GET"
                    \/ Reply(p).status \in {StatusBadRequest, StatusNotFound,
                                             StatusMethodNotAllowed}))
        => (saves[p] = 0 /\ (loadErr[p] = "" => file = loaded[p]))

\* C17: the stored list changes only in the step of an add, delete or complete
\* request that replies 201 or 204; a GET and every request replying 400, 404
\* or 405 saves nothing and leaves the stored list as it loaded it.
C17_StorageWrittenOnlyByMutations ==
    [][/\ file' # file => \E p \in Procs : MutationSucceeds(p)
       /\ \A p \in Procs : RejectedLeavesStorage(p)']_vars

\* A DELETE of an identifier past the end of a stored list of one item has
\* replied 404.
C17_Witness ==
    /\ Replied(1)
    /\ req[1].method = "DELETE"
    /\ Reply(1).status = StatusNotFound
    /\ Len(file) = 1

\* C18: under fair scheduling every request waiting for the lock acquires it,
\* every request to the todo routes gets its one reply, and a held lock is
\* released.
C18_LockReleasedOnEveryPath ==
    \A p \in Procs :
        /\ pc[p] = "lock" ~> pc[p] = "load"
        /\ pc[p] = "lock" ~> (pc[p] = "unlock" /\ Len(replies[p]) = 1)
        /\ mu = p ~> mu # p

\* A request waits for the lock while the holder has replied 500 to a failed
\* load and not yet returned.
C18_Witness ==
    \E p \in Procs : \E q \in Procs \ {p} :
        /\ pc[q] = "lock"
        /\ loadErr[p] # ""
        /\ LoadFailed(p)

\* p and q are through with a DELETE of the same identifier i each, neither
\* met an I/O error, and no other request saved.
BothDeleted(p, q, i) ==
    /\ p # q
    /\ \A r \in {p, q} :
          /\ pc[r] = "done"
          /\ req[r].method = "DELETE"
          /\ req[r].path = IdPath(i)
          /\ loadErr[r] = ""
          /\ Reply(r).status # StatusInternalServerError
    /\ \A r \in Procs \ {p, q} : saves[r] = 0

\* The list l without the items at positions i and i+1.
WithoutTwo(l, i) == SubSeq(l, 1, i - 1) \o SubSeq(l, i + 2, Len(l))

\* C19: two concurrent DELETE /todo/{i} with the same i on a stored list of at
\* least i+1 items both reply 204, and the stored list ends as the initial one
\* without the items at positions i and i+1.
C19_SameIdDeletesTwo ==
    \A p \in Procs : \A q \in Procs : \A i \in 1..(MaxLen - 1) :
        (BothDeleted(p, q, i) /\ Len(file0) >= i + 1)
            => /\ Reply(p) = TextReply(StatusNoContent, "")
               /\ Reply(q) = TextReply(StatusNoContent, "")
               /\ file = WithoutTwo(file0, i)

\* Two DELETE /todo/2 are through on a list of three different items: the
\* first item alone is left.
C19_Witness ==
    /\ BothDeleted(1, 2, 2)
    /\ Len(file0) = 3
    /\ file0[2] # file0[3]
    /\ file0[1] # file0[2]
    /\ file = <<file0[1]>>

\* The bodies json.Decoder cannot decode into the struct of addHandler: no
\* body at all, malformed JSON, a task that is not a string.
UndecodableKinds == {"empty", "malformed", "nonstring"}

\* The task text the decoded body carries: the text of its "task" field, or
\* the empty text when it has none.
TaskOf(body) == IF body.kind = "task" THEN body.task ELSE ""

\* C20: POST /todo replies 400 and leaves the stored list unchanged exactly
\* when its body does not decode; any other body, one without a task field
\* included, replies 201 with the stored list grown by one incomplete item of
\* that task text (or 500 when the save fails).
C20_AddDecodes ==
    \A p \in Procs : \A path \in CollectionPaths :
        Served(p, "POST", path) =>
            IF req[p].body.kind \in UndecodableKinds
            THEN /\ Reply(p) = ErrorReply(StatusBadRequest, "Invalid JSON")
                 /\ saves[p] = 0
                 /\ file = loaded[p]
            ELSE /\ SavedOr500(p, StatusCreated)
                 /\ Reply(p).status = StatusCreated =>
                       /\ Reply(p) = TextReply(StatusCreated, "")
                       /\ file = Append(loaded[p],
                                        [Task |-> TaskOf(req[p].body), Done |-> FALSE])

\* A POST /todo whose JSON body has no task field has replied 201.
C20_Witness ==
    /\ Served(1, "POST", TodoPrefix)
    /\ req[1].body.kind = "notask"
    /\ Reply(1).status = StatusCreated
    /\ file = Append(loaded[1], [Task |-> "", Done |-> FALSE])

====
